---- MODULE Spec2Model ----
(***************************************************************************)
(* DicomBrowser: the series ingestion engine (dicombrowser/dicom.py) and   *)
(* the loader thread of the window class (dicombrowser/dicombrowser.py).   *)
(*                                                                         *)
(* Spec        the browser: add_source, the loader thread, load_dicom_dir  *)
(*             with its worker pool.                                       *)
(* UiSpec      Spec with the UI thread: _update_series_table, remove_source*)
(* SeriesSpec  one DicomSeries object under arbitrary calls of its methods *)
(* ValuesSpec  one DicomSeries object asked for attribute values           *)
(* AccessSpec  one DicomSeries object and the accessors the UI calls        *)
(* IndexSpec   one DicomSeries object asked for headers at any integer     *)
(* LoopSpec    load_dicom_dir called on a root of up to MaxTotal files     *)
(*             that are not DICOM, or on a path that does not exist        *)
(* ZipSpec     load_dicom_zip called on an archive of up to MaxLen entries *)
(* ImageSpec   get_scaled_image and get_2d_equivalent_image                *)
(* TimesSpec   get_timestep_spec on series of up to MaxTimes files         *)
(*                                                                         *)
(* File names are the integers 1..NumFiles, ordered as Python orders the   *)
(* strings.  What a file holds is read by the parser at the time of the    *)
(* call, so it is an input of the action that parses.                      *)
(***************************************************************************)
EXTENDS Integers, Sequences, FiniteSets, TLC

NumFiles == 3       \* candidate files that exist
MaxSources == 2     \* add_source calls in one run
MaxLen == 2         \* files in one DicomSeries of SeriesSpec

Files == 1..NumFiles
\* the directories a client names: the one without a file, and those holding files 1..n
Dirs == {1..n : n \in 0..NumFiles}
\* a path: a directory with the files under it, or a name with nothing behind it
Dir(files) == [kind |-> "dir", files |-> files]
NoSuchPath == [kind |-> "missing"]
Roots == {Dir(d) : d \in Dirs} \cup {NoSuchPath}
\* os.path.isdir(path)
isdir(path) == path.kind = "dir"
\* list(filter(os.path.isfile, glob(rootdir + "/**", recursive=True))): no match, no file
glob(rootdir) == IF rootdir.kind = "dir" THEN rootdir.files ELSE {}
SeriesUIDs == {"k1", "k2"}
Absent == "absent"  \* the header carries no SeriesInstanceUID
None == [kind |-> "None"]

LOAD_ATTRS ==
    {"SeriesInstanceUID", "TriggerTime", "PatientName", "SeriesDescription", "SeriesNumber", "StudyDescription"}

(***************************************************************************)
(* Python helpers                                                          *)
(***************************************************************************)
\* dict.get(key, default)
Get(d, key, default) == IF key \in DOMAIN d THEN d[key] ELSE default

\* hasattr(obj, name): the instance attributes of an object are the fields of its record
HasAttr(obj, name) == name \in DOMAIN obj

zip(a, b) == [i \in 1..(IF Len(a) < Len(b) THEN Len(a) ELSE Len(b)) |-> <<a[i], b[i]>>]

\* sorted() of (filename, dict) pairs raises TypeError when two names tie and the dicts differ
SortRaises(pairs) ==
    \E i, j \in 1..Len(pairs) : i # j /\ pairs[i][1] = pairs[j][1] /\ pairs[i][2] # pairs[j][2]

RECURSIVE InsertPair(_, _)
InsertPair(x, acc) ==
    IF acc = <<>> THEN <<x>>
    ELSE IF Head(acc)[1] <= x[1] THEN <<Head(acc)>> \o InsertPair(x, Tail(acc))
    ELSE <<x>> \o acc

\* sorted(pairs): stable, ascending by file name
RECURSIVE sorted(_)
sorted(pairs) ==
    IF pairs = <<>> THEN <<>>
    ELSE InsertPair(pairs[Len(pairs)], sorted(SubSeq(pairs, 1, Len(pairs) - 1)))

(***************************************************************************)
(* What the parser reads                                                   *)
(***************************************************************************)
\* the TriggerTime stored in file f, a decimal number held in tenths; different files of a
\* series differ in it
TriggerTimeOf(f) == (NumFiles + 1 - f) * 10

\* the header of a DICOM file f of series uid
Header(f, uid) ==
    LET base == [TriggerTime |-> TriggerTimeOf(f), Modality |-> "MR"]
    IN  IF uid = Absent THEN base ELSE [SeriesInstanceUID |-> uid] @@ base

\* outcomes of dicomio.read_file(f, stop_before_pixels=True)
HeaderReads(f) ==
    {[kind |-> "InvalidDicomError"], [kind |-> "OSError"]}
        \cup {[kind |-> "dcm", dcm |-> Header(f, u)] : u \in SeriesUIDs \cup {Absent}}

\* values of a decimal-string attribute
Num(n) == [t |-> "num", v |-> n]
NonNumeric == [t |-> "str"]
MultiValue == [t |-> "multi"]
Empty == [t |-> "empty"]

\* what a DICOM file can hold beside its header
PixelVariants(f) ==
    { <<>>,
      [PixelData |-> [t |-> "compressed"]],
      [PixelData |-> [t |-> "array", v |-> <<f>>], RescaleSlope |-> Num(2), RescaleIntercept |-> Num(1)],
      [PixelData |-> [t |-> "array", v |-> <<f>>], RescaleSlope |-> NonNumeric],
      [PixelData |-> [t |-> "array", v |-> <<f>>], RescaleIntercept |-> MultiValue] }

\* outcomes of dicomio.read_file(f)
FullReads(f) ==
    {[kind |-> "InvalidDicomError"], [kind |-> "OSError"]}
        \cup {[kind |-> "dcm", dcm |-> Header(f, u) @@ px] : u \in SeriesUIDs \cup {Absent}, px \in PixelVariants(f)}

\* load_dicom_file(filename) when the read gives `rd`
load_dicom_file(filename, rd) ==
    IF rd.kind = "dcm"
    THEN [kind |-> "pair", filename |-> filename,
          attrs |-> [t \in LOAD_ATTRS \cap DOMAIN rd.dcm |-> rd.dcm[t]]]
    ELSE IF rd.kind = "InvalidDicomError" THEN None
    ELSE [kind |-> "raise", exc |-> rd.kind]

(***************************************************************************)
(* DicomSeries                                                             *)
(***************************************************************************)
\* DicomSeries.__init__
DicomSeries(series_id, rootdir) ==
    [series_id |-> series_id, rootdir |-> rootdir, filenames |-> <<>>, loadattrs |-> <<>>,
     imgcache |-> <<>>, attrcache |-> <<>>, seqtype |-> "list"]

\* the uid in the headers of the files of series s
UidOf(s) == IF s.series_id = "???" THEN Absent ELSE s.series_id

\* the load attributes load_dicom_file takes from file f of series s
LoadAttrsOf(s, f) == load_dicom_file(f, [kind |-> "dcm", dcm |-> Header(f, UidOf(s))]).attrs

\* seq[index] of Python: a negative index counts from the end
InRange(seq, index) == -Len(seq) <= index /\ index < Len(seq)
At(seq, index) == IF index >= 0 THEN seq[index + 1] ELSE seq[Len(seq) + index + 1]

\* d[key] = value on a dict
Put(d, key, value) == [x \in DOMAIN d \cup {key} |-> IF x = key THEN value ELSE d[x]]

add_fileAlt(s, filename, loadattr, attrs, img) ==
    IF s.seqtype = "tuple" THEN [s |-> s, exc |-> "AttributeError"]
    ELSE LET s1 == [s EXCEPT !.filenames = Append(@, filename), !.loadattrs = Append(@, loadattr)]
             idx == Len(s1.filenames) - 1
         IN  IF attrs # None /\ img # None
             THEN [s |-> [s1 EXCEPT !.attrcache = Put(@, idx, attrs), !.imgcache = Put(@, idx, img)],
                   exc |-> "none"]
             ELSE [s |-> s1, exc |-> "none"]

add_filePrependAlt(s, filename, loadattr, attrs, img) ==
    IF s.seqtype = "tuple" THEN [s |-> s, exc |-> "AttributeError"]
    ELSE LET s1 == [s EXCEPT !.filenames = <<filename>> \o @, !.loadattrs = <<loadattr>> \o @]
             idx == Len(s1.filenames) - 1
         IN  IF attrs # None \/ img # None
             THEN [s |-> [s1 EXCEPT !.attrcache = Put(@, idx, attrs), !.imgcache = Put(@, idx, img)],
                   exc |-> "none"]
             ELSE [s |-> s1, exc |-> "none"]

\* DicomSeries.add_file: the new series, and the exception if one is raised
add_file(s, filename, loadattr, attrs, img) ==
    IF s.seqtype = "tuple" THEN [s |-> s, exc |-> "AttributeError"]
    ELSE LET s1 == [s EXCEPT !.filenames = Append(@, filename), !.loadattrs = Append(@, loadattr)]
             idx == Len(s1.filenames) - 1
         IN  IF attrs # None \/ img # None
             THEN [s |-> [s1 EXCEPT !.attrcache = Put(@, idx, attrs), !.imgcache = Put(@, idx, img)],
                   exc |-> "none"]
             ELSE [s |-> s1, exc |-> "none"]

sort_filenamesAlt(s) ==
    LET pairs == zip(s.filenames, s.loadattrs)
    IN  IF pairs = <<>> THEN [s |-> s, exc |-> "ValueError"]
        ELSE [s |-> [s EXCEPT !.filenames = [i \in 1..Len(pairs) |-> sorted(pairs)[i][1]],
                              !.seqtype = "tuple"],
              exc |-> "none"]

\* DicomSeries.sort_filenames
sort_filenames(s) ==
    LET pairs == zip(s.filenames, s.loadattrs)
    IN  IF SortRaises(pairs) THEN [s |-> s, exc |-> "TypeError"]
        ELSE IF pairs = <<>> THEN [s |-> s, exc |-> "ValueError"]
        ELSE [s |-> [s EXCEPT !.filenames = [i \in 1..Len(pairs) |-> sorted(pairs)[i][1]],
                              !.loadattrs = [i \in 1..Len(pairs) |-> sorted(pairs)[i][2]],
                              !.seqtype = "tuple"],
              exc |-> "none"]

\* DicomSeries.add_series: add_file for every pair of `other`, up to the first that raises
RECURSIVE add_series(_, _, _)
add_series(s, other, from) ==
    IF from > Len(zip(other.filenames, other.loadattrs)) THEN [s |-> s, exc |-> "none", other |-> other]
    ELSE LET r == add_file(s, other.filenames[from], other.loadattrs[from], None, None)
         IN  IF r.exc # "none" THEN [s |-> r.s, exc |-> r.exc, other |-> other]
             ELSE add_series(r.s, other, from + 1)

\* `index in cache`
CachedAlt(cache, index) == FALSE
Cached(cache, index) == index \in DOMAIN cache

get_attr_objectAlt(s, index, rd) ==
    IF Cached(s.attrcache, index)
    THEN [s |-> s, exc |-> "none", val |-> s.attrcache[index], parsed |-> FALSE]
    ELSE IF ~InRange(s.filenames, index)
    THEN [s |-> s, exc |-> "IndexError", val |-> None, parsed |-> FALSE]
    ELSE IF rd.kind # "dcm"
    THEN [s |-> s, exc |-> rd.kind, val |-> None, parsed |-> TRUE]
    ELSE [s |-> [s EXCEPT !.attrcache = Put(@, index, rd.dcm),
                          !.loadattrs[IF index >= 0 THEN index + 1 ELSE Len(s.loadattrs) + index + 1] = rd.dcm],
          exc |-> "none", val |-> rd.dcm, parsed |-> TRUE]

get_attr_objectSkipAlt(s, index, rd) ==
    IF Cached(s.attrcache, index)
    THEN [s |-> s, exc |-> "none", val |-> s.attrcache[index], parsed |-> FALSE]
    ELSE IF ~InRange(s.filenames, index)
    THEN [s |-> s, exc |-> "IndexError", val |-> None, parsed |-> FALSE]
    ELSE IF rd.kind # "dcm"
    THEN [s |-> [s EXCEPT !.attrcache = Put(@, index, None)], exc |-> "none", val |-> None,
          parsed |-> TRUE]
    ELSE [s |-> [s EXCEPT !.attrcache = Put(@, index, rd.dcm)], exc |-> "none", val |-> rd.dcm,
          parsed |-> TRUE]

\* DicomSeries.get_attr_object when the read, if one is made, gives `rd`
get_attr_object(s, index, rd) ==
    IF Cached(s.attrcache, index)
    THEN [s |-> s, exc |-> "none", val |-> s.attrcache[index], parsed |-> FALSE]
    ELSE IF ~InRange(s.filenames, index)
    THEN [s |-> s, exc |-> "IndexError", val |-> None, parsed |-> FALSE]
    ELSE IF rd.kind # "dcm"
    THEN [s |-> s, exc |-> rd.kind, val |-> None, parsed |-> TRUE]
    ELSE [s |-> [s EXCEPT !.attrcache = Put(@, index, rd.dcm)], exc |-> "none", val |-> rd.dcm,
          parsed |-> TRUE]

\* float(value or default): 0, None and '' give way to the default
FloatOr(value, default) ==
    IF value.t = "num" THEN [exc |-> "none", v |-> IF value.v = 0 THEN default ELSE value.v]
    ELSE IF value.t = "empty" THEN [exc |-> "none", v |-> default]
    ELSE IF value.t = "str" THEN [exc |-> "ValueError", v |-> 0]
    ELSE [exc |-> "TypeError", v |-> 0]

\* dcm.pixel_array
pixel_array(dcm) ==
    IF "PixelData" \notin DOMAIN dcm THEN [exc |-> "AttributeError", v |-> <<>>]
    ELSE IF dcm.PixelData.t = "array" THEN [exc |-> "none", v |-> dcm.PixelData.v]
    ELSE [exc |-> "NotImplementedError", v |-> <<>>]

\* the exceptions get_scaled_image catches
ScaleCaught == {"KeyError", "ValueError", "AttributeError"}

get_scaled_imageAlt(dcm) ==
    LET rslope == FloatOr(Get(dcm, "RescaleSlope", Num(1)), 1)
        rinter == FloatOr(Get(dcm, "RescaleIntercept", Num(0)), 0)
        arr == pixel_array(dcm)
        raised == IF rslope.exc # "none" THEN rslope.exc
                  ELSE IF rinter.exc # "none" THEN rinter.exc
                  ELSE arr.exc
    IN  IF raised = "none"
        THEN [exc |-> "none",
              val |-> [kind |-> "img", pixels |-> [i \in 1..Len(arr.v) |-> arr.v[i] * rslope.v]]]
        ELSE IF raised \in ScaleCaught THEN [exc |-> "none", val |-> None]
        ELSE [exc |-> raised, val |-> None]

\* get_scaled_image
get_scaled_image(dcm) ==
    LET rslope == FloatOr(Get(dcm, "RescaleSlope", Num(1)), 1)
        rinter == FloatOr(Get(dcm, "RescaleIntercept", Num(0)), 0)
        arr == pixel_array(dcm)
        raised == IF rslope.exc # "none" THEN rslope.exc
                  ELSE IF rinter.exc # "none" THEN rinter.exc
                  ELSE arr.exc
    IN  IF raised = "none"
        THEN [exc |-> "none",
              val |-> [kind |-> "img", pixels |-> [i \in 1..Len(arr.v) |-> arr.v[i] * rslope.v + rinter.v]]]
        ELSE IF raised \in ScaleCaught THEN [exc |-> "none", val |-> None]
        ELSE [exc |-> raised, val |-> None]

get_pixel_dataAlt(s, index, rd) ==
    IF Cached(s.imgcache, index) /\ s.imgcache[index] # None
    THEN [s |-> s, exc |-> "none", val |-> s.imgcache[index], parsed |-> FALSE]
    ELSE IF ~InRange(s.filenames, index)
    THEN [s |-> s, exc |-> "IndexError", val |-> None, parsed |-> FALSE]
    ELSE IF rd.kind # "dcm"
    THEN [s |-> s, exc |-> rd.kind, val |-> None, parsed |-> TRUE]
    ELSE LET img == get_scaled_image(rd.dcm)
         IN  IF img.exc # "none"
             THEN [s |-> s, exc |-> img.exc, val |-> None, parsed |-> TRUE]
             ELSE [s |-> [s EXCEPT !.imgcache = Put(@, index, img.val)], exc |-> "none",
                   val |-> img.val, parsed |-> TRUE]

\* an array is known by its shape and by the indices at which its leading axes were fixed
Array(shape) == [shape |-> shape, at |-> <<>>]

\* img[tuple(idx) + (slice(None),) * stop]: integers fix the leading axes
Slice(img, idx) ==
    [shape |-> SubSeq(img.shape, Len(idx) + 1, Len(img.shape)), at |-> img.at \o idx]

get_2d_equivalent_imageAlt(img) ==
    LET shape == img.shape
        ndim == Len(shape)
        color_dim == ndim > 2 /\ shape[ndim] \in {1, 3, 4}
    IN  IF ndim <= 2 \/ (ndim = 3 /\ color_dim) THEN img
        ELSE Slice(img, [i \in 1..(ndim - 2) |-> shape[i] \div 2])

\* get_2d_equivalent_image
get_2d_equivalent_image(img) ==
    LET shape == img.shape
        ndim == Len(shape)
        color_dim == ndim > 2 /\ shape[ndim] \in {1, 3, 4}
    IN  IF ndim <= 2 \/ (ndim = 3 /\ color_dim) THEN img
        ELSE LET stop == IF color_dim THEN 3 ELSE 2
             IN  Slice(img, [i \in 1..(ndim - stop) |-> shape[i] \div 2])

\* DicomSeries.get_pixel_data when the read, if one is made, gives `rd`
get_pixel_data(s, index, rd) ==
    IF Cached(s.imgcache, index)
    THEN [s |-> s, exc |-> "none", val |-> s.imgcache[index], parsed |-> FALSE]
    ELSE IF ~InRange(s.filenames, index)
    THEN [s |-> s, exc |-> "IndexError", val |-> None, parsed |-> FALSE]
    ELSE IF rd.kind # "dcm"
    THEN [s |-> s, exc |-> rd.kind, val |-> None, parsed |-> TRUE]
    ELSE LET img == get_scaled_image(rd.dcm)
         IN  IF img.exc # "none"
             THEN [s |-> s, exc |-> img.exc, val |-> None, parsed |-> TRUE]
             ELSE [s |-> [s EXCEPT !.imgcache = Put(@, index, img.val)], exc |-> "none",
                   val |-> img.val, parsed |-> TRUE]

\* int(x) of a decimal number held in tenths: truncation towards zero
int(x) == IF x >= 0 THEN x \div 10 ELSE -((-x) \div 10)

\* sorted(S) of a set of integers
RECURSIVE sortedSet(_)
sortedSet(S) ==
    IF S = {} THEN <<>>
    ELSE LET m == CHOOSE x \in S : \A y \in S : x <= y IN <<m>> \o sortedSet(S \ {m})

RECURSIVE sum(_)
sum(xs) == IF xs = <<>> THEN 0 ELSE xs[1] + sum(Tail(xs))

\* np.average(xs): the quotient total / n, kept as the two numbers
average(xs) == [total |-> sum(xs), n |-> Len(xs)]

\* the float 0.0 as a quotient
Zero == [total |-> 0, n |-> 1]

get_timestep_specAlt(s, attr) ==
    LET times == sortedSet({int(Get(s.loadattrs[i], attr, 0)) : i \in 1..Len(s.loadattrs)})
    IN  IF times = <<>> \/ times = <<0>> THEN <<0, Zero, 0>>
        ELSE LET t2 == IF Len(times) = 1 THEN times \o times ELSE times
             IN  <<t2[1], average([i \in 1..(Len(t2) - 1) |-> t2[i + 1] - t2[i]]), Len(s.loadattrs)>>

\* DicomSeries.get_timestep_spec(attr): (start time, interval, num timesteps)
get_timestep_spec(s, attr) ==
    LET times == sortedSet({int(Get(s.loadattrs[i], attr, 0)) : i \in 1..Len(s.loadattrs)})
    IN  IF times = <<>> \/ times = <<0>> THEN <<0, Zero, 0>>
        ELSE LET t2 == IF Len(times) = 1 THEN times \o times ELSE times
             IN  <<t2[1], average([i \in 1..(Len(t2) - 1) |-> t2[i + 1] - t2[i]]), Len(t2)>>

\* str(x) and the f-string of get_extra_attr_values: the text of the values
str(x) == [text |-> x]
format(template, args) == [template |-> template, args |-> args]

get_extra_attr_valuesAlt(s) ==
    LET spec == get_timestep_spec(s, "TriggerTime")
    IN  [NumImages |-> Len(s.filenames) - 1,
         TimestepSpec |-> format("start: {start}, interval: {interval}, # Steps: {numtimes}", spec),
         StartTime |-> spec[1],
         NumTimesteps |-> spec[3],
         TimeInterval |-> spec[2]]

\* DicomSeries.get_extra_attr_values
get_extra_attr_values(s) ==
    LET spec == get_timestep_spec(s, "TriggerTime")
    IN  [NumImages |-> Len(s.filenames),
         TimestepSpec |-> format("start: {start}, interval: {interval}, # Steps: {numtimes}", spec),
         StartTime |-> spec[1],
         NumTimesteps |-> spec[3],
         TimeInterval |-> spec[2]]

get_attr_valuesAlt(s, names, index, rd) ==
    LET r == get_attr_object(s, index, rd)
    IN  IF r.exc # "none" THEN r
        ELSE LET dcm == r.val
                 extravals == get_extra_attr_values(r.s)
             IN  [r EXCEPT !.val = [i \in 1..Len(names) |->
                                       str(Get(dcm, names[i], Get(extravals, names[i], "")))]]

\* DicomSeries.get_attr_values(names, index) when the read, if one is made, gives `rd`
get_attr_values(s, names, index, rd) ==
    IF s.filenames = <<>>
    THEN [s |-> s, exc |-> "none", val |-> <<>>, parsed |-> FALSE]
    ELSE LET r == get_attr_object(s, index, rd)
         IN  IF r.exc # "none" THEN r
             ELSE LET dcm == r.val
                      extravals == get_extra_attr_values(r.s)
                  IN  [r EXCEPT !.val = [i \in 1..Len(names) |->
                                            str(Get(dcm, names[i], Get(extravals, names[i], "")))]]

(***************************************************************************)
(* State                                                                   *)
(***************************************************************************)
VARIABLES
    src_queue,   \* DicomBrowser.src_queue: the sources waiting for the loader thread
    src_list,    \* DicomBrowser.src_list: (src, series) of the accepted sources
    nadded,      \* add_source calls so far
    loaderPc,    \* where the loader thread is: "get", "collect", "raising", "post", "dead"
    loaderExc,   \* the exception that ended the loader thread, or "none"
    src,         \* the loader thread's local `src`: the source taken from the queue last
    loading,     \* the sources whose loader(src, ...) call has not returned
    futures,     \* load_dicom_dir: the task of each candidate file
    series,      \* load_dicom_dir: the dict seriesid -> DicomSeries, in insertion order
    count,       \* load_dicom_dir: count
    loaded,      \* the loader thread's local `series`: what the loader returned last
    status,      \* the last statusSignal emitted: (label, count, total)
    signals,     \* the statusSignal emissions of the loader call in progress, or of the last
    obj,         \* SeriesSpec: the DicomSeries object a client holds
    ret,         \* SeriesSpec: what the last call of an accessor did and returned
    updates,     \* the emissions of updateSignal that the event loop has not delivered yet
    ui           \* the UI thread: where it is, and the exception its last call raised

vars == <<src_queue, src_list, nadded, loaderPc, loaderExc, src, loading, futures, series, count, loaded, status,
          signals, obj, ret, updates, ui>>

\* the UI thread is in the event loop
UiIdle == [pc |-> "idle", exc |-> "none"]

NoCall == [op |-> "none"]

\* the dict as a sequence of (key, value)
Keys(d) == {d[i][1] : i \in 1..Len(d)}
Lookup(d, key) == CHOOSE i \in 1..Len(d) : d[i][1] = key
values(d) == [i \in 1..Len(d) |-> d[i][2]]

Init ==
    /\ src_queue = <<>>
    /\ src_list = <<>>
    /\ nadded = 0
    /\ loaderPc = "get"
    /\ loaderExc = "none"
    /\ src = None
    /\ loading = <<>>
    /\ futures = <<>>
    /\ series = <<>>
    /\ count = 0
    /\ loaded = <<>>
    /\ status = <<"", 0, 0>>
    /\ signals = <<>>
    /\ obj = None
    /\ ret = NoCall
    /\ updates = 0
    /\ ui = UiIdle

(***************************************************************************)
(* DicomBrowser.add_source                                                 *)
(***************************************************************************)
add_source(rootdir) ==
    /\ nadded < MaxSources
    /\ nadded' = nadded + 1
    /\ src_queue' = Append(src_queue, rootdir)
    /\ UNCHANGED <<src_list, loaderPc, loaderExc, loading, futures, series, count, loaded, status, signals, obj, ret, src, updates, ui>>

(***************************************************************************)
(* DicomBrowser._load_source_thread and load_dicom_dir                     *)
(***************************************************************************)
\* the one loader thread is at the head of its loop
ThreadAtGetAlt == TRUE
ThreadAtGet == loaderPc = "get"

\* statusfunc(s, c, n) is self.statusSignal.emit(s, c, n)
statusfuncAlt(log, s, c, n) == log
statusfunc(log, s, c, n) == Append(log, <<s, c, n>>)

\* set_status(msg, progress, progressmax), the slot of statusSignal: what the status bar shows
set_status(sig) == IF sig[1] = "" THEN <<"", 0, 0>> ELSE sig

\* the status bar after the emissions that took the log to `log`
Shown(log) == IF log = signals THEN status ELSE set_status(log[Len(log)])

\* load_dicom_dir(rootdir, statusfunc) up to the submission of the tasks (lines 123-133),
\* or to its return of [] when the scan lists no file (129-130)
DirBegin(rootdir) ==
    LET allfiles == glob(rootdir)
        numfiles == Cardinality(allfiles)
    IN  /\ series' = <<>>
        /\ count' = 0
        /\ signals' = <<>>
        /\ IF numfiles = 0
           THEN /\ loaded' = <<>>
                /\ loaderPc' = "post"
                /\ futures' = <<>>
                /\ UNCHANGED <<loading, loaderExc>>
           ELSE /\ loading' = Append(loading, rootdir)
                /\ futures' = [f \in allfiles |-> [state |-> "pending", result |-> None]]
                /\ loaderPc' = "collect"
                /\ UNCHANGED <<loaded, loaderExc>>

\* src = self.src_queue.get() and the choice of the loader: load_dicom_dir for a directory,
\* load_dicom_zip otherwise, where zipfile.ZipFile(filename) finds no file to open
LoaderGet ==
    /\ ThreadAtGet
    /\ src_queue # <<>>
    /\ src_queue' = Tail(src_queue)
    /\ src' = Head(src_queue)
    /\ IF isdir(Head(src_queue))
       THEN DirBegin(Head(src_queue))
       ELSE /\ loaderExc' = "FileNotFoundError"
            /\ loaderPc' = "dead"
            /\ futures' = <<>>
            /\ series' = <<>>
            /\ count' = 0
            /\ signals' = <<>>
            /\ UNCHANGED <<loading, loaded>>
    /\ UNCHANGED <<src_list, nadded, status, obj, ret, updates, ui>>

\* a worker finishes load_dicom_file(f)
WorkerFinish(f) ==
    /\ f \in DOMAIN futures
    /\ futures[f].state = "pending"
    /\ \E rd \in HeaderReads(f) :
           futures' = [futures EXCEPT ![f] = [state |-> "finished", result |-> load_dicom_file(f, rd)]]
    /\ UNCHANGED <<src_queue, src_list, nadded, loaderPc, loaderExc, loading, series, count, loaded, status, signals, obj, ret, src, updates, ui>>

GroupedAlt(d, result, rootdir) ==
    LET seriesid == Get(result.attrs, "SeriesInstanceUID", "???")
        fresh == add_file(DicomSeries(seriesid, rootdir), result.filename, result.attrs, None, None).s
    IN  IF seriesid \notin Keys(d) THEN Append(d, <<seriesid, fresh>>)
        ELSE [d EXCEPT ![Lookup(d, seriesid)] = <<seriesid, fresh>>]

\* lines 136-143: the result of one completed task goes into the dict
Grouped(d, result, rootdir) ==
    LET seriesid == Get(result.attrs, "SeriesInstanceUID", "???")
        d1 == IF seriesid \notin Keys(d) THEN Append(d, <<seriesid, DicomSeries(seriesid, rootdir)>>) ELSE d
        k == Lookup(d1, seriesid)
    IN  [d1 EXCEPT ![k] = <<seriesid, add_file(d1[k][2], result.filename, result.attrs, None, None).s>>]

\* the result of a task is None: load_dicom_file met a file that is not DICOM
IsNoneAlt(result) == FALSE
IsNone(result) == result.kind = "None"

ThrottleAlt(numfiles, n) == numfiles < 100 \/ n % 100 = 0
\* line 145
Throttle(numfiles, n) == numfiles < 100 \/ n % (numfiles \div 100) = 0

ProgressAlt(numfiles, n) ==
    /\ signals' = IF Throttle(numfiles, n)
                  THEN statusfunc(signals, "Loading DICOM files", numfiles, n) ELSE signals
    /\ status' = Shown(signals')

\* lines 145-146: the progress notification of turn n of the loop, if it is not skipped
Progress(numfiles, n) ==
    /\ signals' = IF Throttle(numfiles, n)
                  THEN statusfunc(signals, "Loading DICOM files", n, numfiles) ELSE signals
    /\ status' = Shown(signals')

\* one turn of the loop over as_completed(futures): any finished task may come next
Collect(f) ==
    /\ loaderPc = "collect"
    /\ f \in DOMAIN futures
    /\ futures[f].state = "finished"
    /\ LET result == futures[f].result
           numfiles == Cardinality(DOMAIN futures)
           n == Cardinality({g \in DOMAIN futures : futures[g].state = "yielded"})
       IN  /\ futures' = [futures EXCEPT ![f].state = "yielded"]
           /\ count' = n
           /\ IF IsNone(result)
              THEN /\ UNCHANGED <<series, loaderExc>>
                   /\ loaderPc' = "collect"
                   /\ Progress(numfiles, n)
              ELSE IF result.kind = "pair"
              THEN /\ series' = Grouped(series, result, src)
                   /\ loaderPc' = "collect"
                   /\ Progress(numfiles, n)
                   /\ UNCHANGED loaderExc
              ELSE /\ loaderExc' = (IF result.kind = "raise" THEN result.exc ELSE "TypeError")
                   /\ loaderPc' = "raising"
                   /\ UNCHANGED <<series, status, signals>>
    /\ UNCHANGED <<src_queue, src_list, nadded, loading, loaded, obj, ret, src, updates, ui>>

LoaderAbortAlt ==
    /\ loaderPc = "raising"
    /\ \A f \in DOMAIN futures : futures[f].state # "pending"
    /\ loaderPc' = "dead"
    /\ loading' = SubSeq(loading, 1, Len(loading) - 1)
    /\ series' = <<>>
    /\ src_list' = Append(src_list, <<src, values(series)>>)
    /\ UNCHANGED <<src_queue, nadded, loaderExc, futures, count, loaded, status, signals, obj, ret, src, updates, ui>>

\* future.result() raised: the pool is shut down, which waits for the tasks still running,
\* and the exception leaves load_dicom_dir and the thread's loop, which catches only Empty
LoaderAbort ==
    /\ loaderPc = "raising"
    /\ \A f \in DOMAIN futures : futures[f].state # "pending"
    /\ loaderPc' = "dead"
    /\ loading' = SubSeq(loading, 1, Len(loading) - 1)
    /\ series' = <<>>
    /\ UNCHANGED <<src_queue, src_list, nadded, loaderExc, futures, count, loaded, status, signals, obj, ret, src, updates, ui>>

\* lines 148-149: every task has been consumed
LoaderReturn ==
    /\ loaderPc = "collect"
    /\ \A f \in DOMAIN futures : futures[f].state = "yielded"
    /\ signals' = statusfunc(signals, "", 0, 0)
    /\ status' = Shown(signals')
    /\ loaded' = values(series)
    /\ series' = <<>>
    /\ loading' = SubSeq(loading, 1, Len(loading) - 1)
    /\ loaderPc' = "post"
    /\ UNCHANGED <<src_queue, src_list, nadded, loaderExc, futures, count, obj, ret, src, updates, ui>>

\* line 145 of the thread: the acceptance test of what the loader returned
AcceptsAlt(l) == TRUE
Accepts(l) == l # <<>> /\ \A i \in 1..Len(l) : Len(l[i].filenames) > 0

\* line 148 of the thread: s.filenames, s.loadtags = zip(*sorted(zip(s.filenames, s.loadtags)));
\* reading s.loadtags raises when the object has no such attribute, sorted() when it
\* cannot order two pairs, and the unpacking when there is no pair
thread_sort(s) ==
    IF ~HasAttr(s, "loadtags") THEN [s |-> s, exc |-> "AttributeError"]
    ELSE LET pairs == zip(s.filenames, s.loadtags)
         IN  IF SortRaises(pairs) THEN [s |-> s, exc |-> "TypeError"]
             ELSE IF pairs = <<>> THEN [s |-> s, exc |-> "ValueError"]
             ELSE [s |-> [s EXCEPT !.filenames = [i \in 1..Len(pairs) |-> sorted(pairs)[i][1]],
                                   !.loadtags = [i \in 1..Len(pairs) |-> sorted(pairs)[i][2]],
                                   !.seqtype = "tuple"],
                   exc |-> "none"]

\* lines 145-152 of the thread: accept or drop what the loader returned, and emit
\* updateSignal when no exception has left the loop
LoaderPost ==
    /\ loaderPc = "post"
    /\ IF Accepts(loaded)
       THEN LET failing == {i \in 1..Len(loaded) : thread_sort(loaded[i]).exc # "none"}
                first == IF failing = {} THEN Len(loaded) + 1
                         ELSE CHOOSE i \in failing : \A j \in failing : i <= j
                done == [i \in 1..Len(loaded) |-> IF i < first THEN thread_sort(loaded[i]).s ELSE loaded[i]]
            IN  /\ loaded' = done
                /\ IF failing = {}
                   THEN /\ src_list' = Append(src_list, <<src, done>>)
                        /\ loaderPc' = "get"
                        /\ updates' = updates + 1
                        /\ UNCHANGED loaderExc
                   ELSE /\ loaderExc' = thread_sort(loaded[first]).exc
                        /\ loaderPc' = "dead"
                        /\ UNCHANGED <<src_list, updates>>
       ELSE /\ loaderPc' = "get"
            /\ updates' = updates + 1
            /\ UNCHANGED <<src_list, loaderExc, loaded>>
    /\ UNCHANGED <<src_queue, nadded, loading, futures, series, count, status, signals, obj, ret, src, ui>>

Next ==
    \/ \E rootdir \in Roots : add_source(rootdir)
    \/ LoaderGet
    \/ \E f \in Files : WorkerFinish(f)
    \/ \E f \in Files : Collect(f)
    \/ LoaderAbort
    \/ LoaderReturn
    \/ LoaderPost

Spec == Init /\ [][Next]_vars

(***************************************************************************)
(* UiSpec: the loader thread and the UI thread of the browser              *)
(***************************************************************************)
\* the event loop delivers one emission of updateSignal: _update_series_table is entered and
\* clears the series map (line 173)
UpdateBegin ==
    /\ ui.pc = "idle"
    /\ updates > 0
    /\ updates' = updates - 1
    /\ ui' = [pc |-> "update", exc |-> "none"]
    /\ UNCHANGED <<src_queue, src_list, nadded, loaderPc, loaderExc, src, loading, futures, series, count,
                   loaded, status, signals, obj, ret>>

\* lines 175-182: the loop over src_list, where s.get_tag_values is read from the first
\* series met, a DicomSeries having no such attribute, and the refill of the two models
UpdateEnd ==
    /\ ui.pc = "update"
    /\ ui' = [pc |-> "idle",
              exc |-> IF \E k \in 1..Len(src_list) : src_list[k][2] # <<>> THEN "AttributeError" ELSE "none"]
    /\ UNCHANGED <<src_queue, src_list, nadded, loaderPc, loaderExc, src, loading, futures, series, count,
                   loaded, status, signals, obj, ret, updates>>

\* the indices remove_source is called with
SourceIndices == (-1)..(MaxSources - 1)

\* DicomBrowser.remove_source(index): list.pop raises when there is no such source
remove_source(index) ==
    /\ ui.pc = "idle"
    /\ IF InRange(src_list, index)
       THEN /\ src_list' = [k \in 1..(Len(src_list) - 1) |->
                                IF k < (IF index >= 0 THEN index + 1 ELSE Len(src_list) + index + 1)
                                THEN src_list[k] ELSE src_list[k + 1]]
            /\ updates' = updates + 1
            /\ ui' = UiIdle
       ELSE /\ ui' = [pc |-> "idle", exc |-> "IndexError"]
            /\ UNCHANGED <<src_list, updates>>
    /\ UNCHANGED <<src_queue, nadded, loaderPc, loaderExc, src, loading, futures, series, count,
                   loaded, status, signals, obj, ret>>

NextUi ==
    \/ Next
    \/ UpdateBegin
    \/ UpdateEnd
    \/ \E index \in SourceIndices : remove_source(index)

UiSpec == Init /\ [][NextUi]_vars

(***************************************************************************)
(* Properties of the browser (Spec)                                        *)
(***************************************************************************)
\* the files whose task returned (filename, attrs), and the key load_dicom_dir files them under
ParsedFiles == {f \in DOMAIN futures : futures[f].result.kind = "pair"}
KeyOf(f) == IF "SeriesInstanceUID" \in DOMAIN futures[f].result.attrs
            THEN futures[f].result.attrs.SeriesInstanceUID ELSE "???"
FileSet(s) == {s.filenames[n] : n \in 1..Len(s.filenames)}

\* every parsed file of the batch is, once, in the series of its key and in no other
GroupedExactly(l) ==
    /\ {l[i].series_id : i \in 1..Len(l)} = {KeyOf(f) : f \in ParsedFiles}
    /\ Len(l) = Cardinality({KeyOf(f) : f \in ParsedFiles})
    /\ \A i \in 1..Len(l) :
           /\ FileSet(l[i]) = {f \in ParsedFiles : KeyOf(f) = l[i].series_id}
           /\ Len(l[i].filenames) = Cardinality(FileSet(l[i]))

\* C1: when load_dicom_dir has returned, whatever the order in which the tasks completed,
\* the list it returned has exactly one series per key met among the parsed files ("???" for
\* the files without SeriesInstanceUID), and each series holds exactly the parsed files of
\* its key, each once.
C1_GroupingCorrect == loaderPc = "post" => GroupedExactly(loaded)

\* a batch of three parsed files gave the series "???" and a series of two files
C1_Witness ==
    /\ loaderPc = "post"
    /\ Len(loaded) = 2
    /\ \E i, j \in 1..Len(loaded) : loaded[i].series_id = "???" /\ Len(loaded[j].filenames) = 2

IsSorted(fs) == \A a, b \in 1..Len(fs) : a < b => fs[a] <= fs[b]

\* position i of the load attributes read by the accessors is what was read from filenames[i]
Aligned(s) ==
    /\ Len(s.loadattrs) = Len(s.filenames)
    /\ \A i \in 1..Len(s.filenames) : s.loadattrs[i] = LoadAttrsOf(s, s.filenames[i])

\* the loader thread is through with a result that passes its acceptance test
PostDone ==
    /\ loaderPc # "post"
    /\ loaded # <<>>
    /\ \A i \in 1..Len(loaded) : loaded[i].filenames # <<>>

\* C2: once the loader thread is through with an ingested source that it accepts, the file
\* names of each of its series are in non-decreasing order and loadattrs has been permuted
\* with them.
C2_OrderInvariant ==
    PostDone => \A i \in 1..Len(loaded) : IsSorted(loaded[i].filenames) /\ Aligned(loaded[i])

\* the members of a set of file names in ascending order
RECURSIVE Ascending(_)
Ascending(S) ==
    IF S = {} THEN <<>>
    ELSE LET m == CHOOSE x \in S : \A y \in S : x <= y IN <<m>> \o Ascending(S \ {m})

\* C3: what the series of a source hold after the post-ingestion step depends on the set of
\* files only, not on the order in which the tasks completed: each series holds its files in
\* the one ascending order, with the load attributes of each file at the same place.
C3_CompletionOrderIndependent ==
    PostDone =>
        \A i \in 1..Len(loaded) :
            LET canon == Ascending(FileSet(loaded[i]))
            IN  /\ loaded[i].filenames = canon
                /\ loaded[i].loadattrs = [n \in 1..Len(canon) |-> LoadAttrsOf(loaded[i], canon[n])]

\* the loop of load_dicom_dir takes the result None of task f
ConsumesNone(f) ==
    /\ futures[f].state = "finished"
    /\ futures[f].result = None
    /\ f \in DOMAIN futures'
    /\ futures'[f].state = "yielded"

\* C8: a task whose file failed to parse is dropped without a trace: the loop goes on, no
\* exception is raised, the series are untouched; and the list returned at the end holds
\* every file that did parse.
C8_FailureIsolation ==
    [][/\ \A f \in DOMAIN futures :
              ConsumesNone(f) => loaderPc' = "collect" /\ loaderExc' = loaderExc /\ series' = series
       /\ (loaderPc = "collect" /\ loaderPc' = "post") => GroupedExactly(loaded)']_vars

\* a batch with a file that failed to parse has returned the series of the others
C8_Witness ==
    /\ loaderPc = "post"
    /\ loaded # <<>>
    /\ \E f \in DOMAIN futures : futures[f].state = "yielded" /\ futures[f].result = None

\* what the loader returned is empty, or has an empty series
Rejected(l) == l = <<>> \/ \E i \in 1..Len(l) : l[i].filenames = <<>>

\* C9: every source of src_list has a series and none of its series is empty; and the step
\* of the loader thread that follows a scan whose result is empty or has an empty series
\* leaves src_list as it is.
C9_WholeOrNothing ==
    [][/\ \A k \in 1..Len(src_list') : ~Rejected(src_list'[k][2])
       /\ (loaderPc = "post" /\ Rejected(loaded)) => src_list' = src_list]_vars

\* the thread is through with a scan of which every file failed to parse
C9_Witness ==
    /\ loaderPc = "get"
    /\ DOMAIN futures # {}
    /\ \A f \in DOMAIN futures : futures[f].state = "yielded" /\ futures[f].result = None
    /\ loaded = <<>>
    /\ src_list = <<>>

\* C10: no two loader calls are in progress at a time, and a source is taken from the queue
\* only when no loader call is in progress.
C10_SequentialIngestion ==
    [][/\ Len(loading') <= 1
       /\ Len(src_queue') < Len(src_queue) => loading = <<>>]_vars

\* the second source is being ingested, the first is done with, and none waits
C10_Witness ==
    /\ nadded = 2
    /\ src_queue = <<>>
    /\ Len(loading) = 1
    /\ loaderPc = "collect"

\* C11: the accepted sources are in src_list in the order in which add_source queued them:
\* the thread takes the sources from the head of the queue, the step that ends its work on
\* a source that passes the acceptance test appends that source, and nothing else changes
\* src_list.
C11_ArrivalOrder ==
    [][/\ src_queue' # src_queue =>
              \/ \E r \in Roots : src_queue' = Append(src_queue, r)
              \/ src_queue # <<>> /\ src_queue' = Tail(src_queue) /\ src' = Head(src_queue)
       /\ (loaderPc = "post" /\ loaderPc' # "post" /\ ~Rejected(loaded)) =>
              src_list' = Append(src_list, <<src, loaded'>>)
       /\ src_list' # src_list =>
              loaderPc = "post" /\ SubSeq(src_list', 1, Len(src_list)) = src_list]_vars

\* the notifications of a log whose stage label is empty
Terminal(log) == {i \in 1..Len(log) : log[i][1] = ""}

\* C12: when load_dicom_dir has returned from a root with at least one candidate file, it has
\* emitted exactly one notification with an empty label, and that one is the last: every
\* progress notification of the ingestion came before it.
C12_CompletionNotification ==
    (loaderPc = "post" /\ DOMAIN futures # {}) =>
        /\ Cardinality(Terminal(signals)) = 1
        /\ Terminal(signals) = {Len(signals)}

\* an ingestion of two files is done: two progress notifications, then the empty label
C12_Witness ==
    /\ loaderPc = "post"
    /\ Cardinality(DOMAIN futures) = 2
    /\ Len(signals) = 3
    /\ signals[1][1] # "" /\ signals[2][1] # "" /\ signals[3] = <<"", 0, 0>>
    /\ status = <<"", 0, 0>>

\* C13: when the scan of the root finds no file, load_dicom_dir returns the empty result
\* without a task having been submitted, and has emitted a terminal status notification.
C13_EmptyScan ==
    (loaderPc = "post" /\ isdir(src) /\ glob(src) = {}) =>
        /\ loaded = <<>>
        /\ DOMAIN futures = {}
        /\ Terminal(signals) # {}

\* C14: whatever the outcome of an ingestion request, the status bar is back to idle once
\* the loader thread is through with it: the thread neither waits for its next source nor
\* ends with the label of a progress notification still shown.
C14_StatusCleared == loaderPc \in {"get", "dead"} => status[1] = ""

\* C15: a request whose root does not exist fails alone: the loader thread that has taken
\* such a root from the queue is still running, so that it takes the sources queued after it.
C15_MissingRootIsolation == (src = NoSuchPath /\ src_queue # <<>>) => loaderPc # "dead"

\* C29: the loop of load_dicom_dir consumes the result of a task only once the task has
\* finished and never a second time, and it is left only by the return of load_dicom_dir
\* (Done), when the result of every submitted task has been consumed.
C29_IngestionReachesDone ==
    [][/\ \A f \in DOMAIN futures \cap DOMAIN futures' :
              (futures'[f].state = "yielded" /\ futures[f].state # "yielded") =>
                  futures[f].state = "finished"
       /\ (loaderPc = "collect" /\ loaderPc' # "collect") =>
              /\ loaderPc' = "post"
              /\ \A f \in DOMAIN futures' : futures'[f].state = "yielded"]_vars

SeriesFiles == 1..MaxLen
Indices == 0..MaxLen
browserVars == <<src_queue, src_list, nadded, loaderPc, loaderExc, src, loading, futures, series, count,
                 loaded, status, signals, updates, ui>>

InitSeries ==
    /\ src_queue = <<>>
    /\ src_list = <<>>
    /\ nadded = 0
    /\ loaderPc = "get"
    /\ loaderExc = "none"
    /\ src = None
    /\ loading = <<>>
    /\ futures = <<>>
    /\ series = <<>>
    /\ count = 0
    /\ loaded = <<>>
    /\ status = <<"", 0, 0>>
    /\ signals = <<>>
    /\ obj = DicomSeries("k1", Files)
    /\ ret = NoCall
    /\ updates = 0
    /\ ui = UiIdle

Call(op, index, r) ==
    /\ obj' = r.s
    /\ ret' = [op |-> op, index |-> index, exc |-> r.exc, val |-> r.val, parsed |-> r.parsed]
    /\ UNCHANGED browserVars

\* the reads of a file of series s: the file stays in its series, or is no longer readable
SeriesReads(s, reads) ==
    {rd \in reads : rd.kind = "dcm" => Get(rd.dcm, "SeriesInstanceUID", Absent) = UidOf(s)}

\* obj.add_file(f, loadattr) as load_dicom_dir calls it: a scan meets a file name once
AddFile(f) ==
    /\ Len(obj.filenames) < MaxLen
    /\ f \notin FileSet(obj)
    /\ Call("add_file", 0, add_file(obj, f, LoadAttrsOf(obj, f), None, None) @@ [val |-> None, parsed |-> FALSE])

\* the archive entries the client adds: those with an image
ZipVariants(f) ==
    {px \in PixelVariants(f) : "PixelData" \in DOMAIN px /\ get_scaled_image(px).val # None}

\* obj.add_file(f, dcm, dcm, img) as load_dicom_zip calls it
AddFileCached(f) ==
    /\ Len(obj.filenames) < MaxLen
    /\ f \notin FileSet(obj)
    /\ \E px \in ZipVariants(f) :
           LET dcm == Header(f, UidOf(obj)) @@ px
               img == get_scaled_image(dcm)
           IN  /\ img.exc = "none"
               /\ Call("add_file", 0, add_file(obj, f, dcm, dcm, img.val) @@ [val |-> None, parsed |-> FALSE])

\* the series a client can pass to add_series: the files of `fs` in any order, `fs` being
\* files that obj does not hold, each once
OtherSeries(fs) ==
    LET other == DicomSeries(obj.series_id, Files)
    IN  [other EXCEPT !.filenames = fs, !.loadattrs = [i \in 1..Len(fs) |-> LoadAttrsOf(obj, fs[i])]]

AddSeries(fs) ==
    /\ Len(obj.filenames) + Len(fs) <= MaxLen
    /\ \A a, b \in 1..Len(fs) : a # b => fs[a] # fs[b]
    /\ \A a \in 1..Len(fs) : fs[a] \notin FileSet(obj)
    /\ Call("add_series", 0, add_series(obj, OtherSeries(fs), 1) @@ [val |-> None, parsed |-> FALSE])

SortFilenames ==
    /\ Call("sort_filenames", 0, sort_filenames(obj) @@ [val |-> None, parsed |-> FALSE])

\* line 148 of the loader thread, applied to obj
SortInThread ==
    /\ Call("thread_sort", 0, thread_sort(obj) @@ [val |-> None, parsed |-> FALSE])

\* what read_file can give for filenames[index]; nothing is read when there is no such file
ReadsAt(index, full) ==
    IF InRange(obj.filenames, index)
    THEN LET f == At(obj.filenames, index)
         IN  SeriesReads(obj, IF full THEN FullReads(f) ELSE HeaderReads(f))
    ELSE {None}

GetAttrObject(index) ==
    \E rd \in ReadsAt(index, FALSE) : Call("get_attr_object", index, get_attr_object(obj, index, rd))

GetPixelData(index) ==
    \E rd \in ReadsAt(index, TRUE) : Call("get_pixel_data", index, get_pixel_data(obj, index, rd))

\* the lists of names a client asks for: header attributes, extra values, unknown names
NameLists == {<<>>, <<"Modality", "NumImages">>, <<"TimestepSpec", "TriggerTime", "NoSuchName">>}

GetAttrValues(names, index) ==
    \E rd \in ReadsAt(index, FALSE) :
        LET r == get_attr_values(obj, names, index, rd)
        IN  /\ obj' = r.s
            /\ ret' = [op |-> "get_attr_values", index |-> index, names |-> names, exc |-> r.exc,
                       val |-> r.val, parsed |-> r.parsed]
            /\ UNCHANGED browserVars

NextSeries ==
    \/ \E f \in SeriesFiles : AddFile(f)
    \/ \E f \in SeriesFiles : AddFileCached(f)
    \/ \E n \in 1..MaxLen : \E fs \in [1..n -> SeriesFiles] : AddSeries(fs)
    \/ SortFilenames
    \/ SortInThread
    \/ \E index \in Indices : GetAttrObject(index)
    \/ \E index \in Indices : GetPixelData(index)

SeriesSpec == InitSeries /\ [][NextSeries]_vars

\* ValuesSpec: the series as load_dicom_dir and the loader thread make it, and the table
\* asking it for the values of its rows
NextValues ==
    \/ \E f \in SeriesFiles : AddFile(f)
    \/ SortFilenames
    \/ \E names \in NameLists, index \in Indices : GetAttrValues(names, index)

ValuesSpec == InitSeries /\ [][NextValues]_vars

\* AccessSpec: a series whose ingestion is over, and the three accessors that the table,
\* the image view and the attribute tree call
RECURSIVE AddedFrom(_, _)
AddedFrom(s, f) ==
    IF f = 0 THEN s ELSE AddedFrom(add_file(s, f, LoadAttrsOf(s, f), None, None).s, f - 1)

\* the series of files n, n-1 .. 1, added in this order and sorted by sort_filenames
IngestedSeries(n) == sort_filenames(AddedFrom(DicomSeries("k1", Files), n)).s

InitAccess ==
    /\ src_queue = <<>>
    /\ src_list = <<>>
    /\ nadded = 0
    /\ loaderPc = "get"
    /\ loaderExc = "none"
    /\ src = None
    /\ loading = <<>>
    /\ futures = <<>>
    /\ series = <<>>
    /\ count = 0
    /\ loaded = <<>>
    /\ status = <<"", 0, 0>>
    /\ signals = <<>>
    /\ obj \in {IngestedSeries(n) : n \in 0..MaxLen}
    /\ ret = NoCall
    /\ updates = 0
    /\ ui = UiIdle

NextAccess ==
    \/ \E index \in Indices : GetAttrObject(index)
    \/ \E index \in Indices : GetPixelData(index)
    \/ \E names \in NameLists, index \in Indices : GetAttrValues(names, index)

AccessSpec == InitAccess /\ [][NextAccess]_vars

\* IndexSpec: get_attr_object called with any integer, the negative ones included
AnyIndices == (-(MaxLen + 1))..(MaxLen + 1)

NextIndex ==
    \/ \E f \in SeriesFiles : AddFile(f)
    \/ \E index \in AnyIndices : GetAttrObject(index)

IndexSpec == InitSeries /\ [][NextIndex]_vars

(***************************************************************************)
(* Properties of DicomSeries (SeriesSpec)                                  *)
(***************************************************************************)
\* C4: after any calls of add_file, add_series, sort_filenames, the sort of the loader
\* thread and the accessors, filenames and loadattrs have the same length and loadattrs[i]
\* is what was read from the file filenames[i].
C4_ListInvariant ==
    /\ Len(obj.filenames) = Len(obj.loadattrs)
    /\ \A i \in 1..Len(obj.filenames) : obj.loadattrs[i].TriggerTime = TriggerTimeOf(obj.filenames[i])

\* two files were added out of order, sorted, and an accessor has filled a cache
C4_Witness ==
    /\ obj.seqtype = "tuple"
    /\ Len(obj.filenames) = 2
    /\ obj.filenames[1] < obj.filenames[2]
    /\ obj.loadattrs[1] # obj.loadattrs[2]
    /\ DOMAIN obj.attrcache # {}

\* C5: an entry of the attribute cache is never removed nor changed; get_attr_object(i) on
\* an index without an entry that does not raise has parsed the header and stored what it
\* returns; on an index with an entry it returns the entry and parses nothing.
C5_AttrMemoized ==
    [][/\ \A i \in DOMAIN obj.attrcache :
              i \in DOMAIN obj'.attrcache /\ obj'.attrcache[i] = obj.attrcache[i]
       /\ ret'.op = "get_attr_object" =>
              IF ret'.index \in DOMAIN obj.attrcache
              THEN ret'.exc = "none" /\ ~ret'.parsed /\ ret'.val = obj.attrcache[ret'.index]
              ELSE ret'.exc = "none" =>
                       /\ ret'.parsed
                       /\ ret'.index \in DOMAIN obj'.attrcache
                       /\ obj'.attrcache[ret'.index] = ret'.val]_vars

\* get_attr_object has answered from the cache for a file of the series
C5_Witness ==
    /\ ret.op = "get_attr_object"
    /\ InRange(obj.filenames, ret.index)
    /\ ret.exc = "none"
    /\ ~ret.parsed
    /\ ret.val = obj.attrcache[ret.index]

\* C6: an entry of the pixel cache, an image or None, is never removed nor changed, and
\* get_pixel_data(i) on an index with an entry returns the entry without reading the file,
\* whatever the file holds by then.
C6_PixelPermanent ==
    [][/\ \A i \in DOMAIN obj.imgcache :
              i \in DOMAIN obj'.imgcache /\ obj'.imgcache[i] = obj.imgcache[i]
       /\ (ret'.op = "get_pixel_data" /\ ret'.index \in DOMAIN obj.imgcache) =>
              ret'.exc = "none" /\ ~ret'.parsed /\ ret'.val = obj.imgcache[ret'.index]]_vars

\* get_pixel_data has answered None from the cache
C6_Witness ==
    /\ ret.op = "get_pixel_data"
    /\ InRange(obj.filenames, ret.index)
    /\ ret.exc = "none"
    /\ ~ret.parsed
    /\ ret.val = None

\* C7: get_pixel_data(i) on a valid index never raises: when the read or the decoding
\* fails, it returns None and None is the entry of the pixel cache for i.
C7_PixelFailureNotFatal ==
    (ret.op = "get_pixel_data" /\ InRange(obj.filenames, ret.index)) =>
        /\ ret.exc = "none"
        /\ ret.index \in DOMAIN obj.imgcache
        /\ obj.imgcache[ret.index] = ret.val
\* C20: on a series without files, get_attr_values(names, index) returns the empty tuple
\* for every names and index, parses nothing and leaves the series, its two caches
\* included, as it was.
C20_InertEmptySeries ==
    [][(ret'.op = "get_attr_values" /\ obj.filenames = <<>>) =>
           /\ ret'.exc = "none"
           /\ ret'.val = <<>>
           /\ ~ret'.parsed
           /\ obj' = obj]_vars

\* three names were asked of the empty series at index 1
C20_Witness ==
    /\ ret.op = "get_attr_values"
    /\ obj.filenames = <<>>
    /\ Len(ret.names) = 3
    /\ ret.index = 1
    /\ ret.val = <<>>
    /\ obj.attrcache = <<>> /\ obj.imgcache = <<>>

\* C21: on a series with files, a call of get_attr_values(names, index) that returns gives
\* one string per name, in the order of the names: the text of the attribute of that name in
\* the header held for the index (the header of the file at the index when the call read it),
\* else the text of the extra value of that name, NumImages being the number of files of the
\* series, else the empty string.
C21_LookupFallback ==
    (ret.op = "get_attr_values" /\ obj.filenames # <<>> /\ ret.exc = "none") =>
        LET hdr == obj.attrcache[ret.index]
            extras == get_extra_attr_values(obj)
        IN  /\ ret.parsed => hdr = Header(At(obj.filenames, ret.index), UidOf(obj))
            /\ Len(ret.val) = Len(ret.names)
            /\ \A i \in 1..Len(ret.names) :
                   LET n == ret.names[i]
                   IN  IF n \in DOMAIN hdr THEN ret.val[i] = str(hdr[n])
                       ELSE IF n = "NumImages" THEN ret.val[i] = str(Len(obj.filenames))
                       ELSE IF n \in {"TimestepSpec", "StartTime", "NumTimesteps", "TimeInterval"}
                       THEN ret.val[i] = str(extras[n])
                       ELSE ret.val[i] = str("")

\* the second of two files was asked for an extra value, a header attribute and an unknown
\* name, and for a header attribute and the number of images
C21_Witness ==
    /\ ret.op = "get_attr_values"
    /\ ret.exc = "none"
    /\ Len(obj.filenames) = 2
    /\ ret.index = 1
    /\ \/ /\ ret.names = <<"TimestepSpec", "TriggerTime", "NoSuchName">>
          /\ ret.val[2] = str(TriggerTimeOf(obj.filenames[2]))
          /\ ret.val[3] = str("")
       \/ /\ ret.names = <<"Modality", "NumImages">>
          /\ ret.val = <<str("MR"), str(2)>>

\* every entry of the cache is still there, unchanged
Kept(cache, after) == \A i \in DOMAIN cache : i \in DOMAIN after /\ after[i] = cache[i]

\* C27: a call of get_attr_object, get_pixel_data or get_attr_values, the calls behind the
\* table update, the row click, the slider and the filter, leaves the file names and the
\* load attributes of the series and their order as they are, whether it returns or raises;
\* it changes nothing of the series but the caches, and there it only adds entries.
C27_ReadOnlyAfterIngestion ==
    [][ret'.op \in {"get_attr_object", "get_pixel_data", "get_attr_values"} =>
           /\ obj'.filenames = obj.filenames
           /\ obj'.loadattrs = obj.loadattrs
           /\ Kept(obj.attrcache, obj'.attrcache)
           /\ Kept(obj.imgcache, obj'.imgcache)
           /\ obj' = [obj EXCEPT !.attrcache = obj'.attrcache, !.imgcache = obj'.imgcache]]_vars

\* the accessors have been called on the series of two files: both caches have entries and
\* the files are as the sort left them
C27_Witness ==
    /\ obj.seqtype = "tuple"
    /\ obj.filenames = <<1, 2>>
    /\ Aligned(obj)
    /\ ret.op = "get_attr_values"
    /\ ret.exc = "none"
    /\ DOMAIN obj.attrcache = {0, 1}
    /\ DOMAIN obj.imgcache # {}

\* C22: get_attr_object(index) with an index that is not one of 0 .. len(filenames)-1, a
\* negative one included, raises IndexError, parses nothing and leaves no entry under that
\* index in the attribute cache.
C22_IndexBounds ==
    (ret.op = "get_attr_object" /\ ~(0 <= ret.index /\ ret.index < Len(obj.filenames))) =>
        /\ ret.exc = "IndexError"
        /\ ~ret.parsed
        /\ ret.index \notin DOMAIN obj.attrcache

(***************************************************************************)
(* LoopSpec: load_dicom_dir called by a client on a root whose files are   *)
(* not DICOM files, so that only their number counts                       *)
(***************************************************************************)
MaxTotal == 120

\* the numbers of files under the root
Totals == (0..MaxTotal) \cup {1000}
LoopRoots == {Dir(1..n) : n \in Totals} \cup {NoSuchPath}

InitLoop ==
    /\ src_queue = <<>>
    /\ src_list = <<>>
    /\ nadded = 0
    /\ loaderPc = "call"
    /\ loaderExc = "none"
    /\ src \in LoopRoots
    /\ loading = <<>>
    /\ futures = <<>>
    /\ series = <<>>
    /\ count = 0
    /\ loaded = <<>>
    /\ status = <<"", 0, 0>>
    /\ signals = <<>>
    /\ obj = None
    /\ ret = NoCall
    /\ updates = 0
    /\ ui = UiIdle

\* series = load_dicom_dir(src, statusfunc), up to the submission of the tasks
DirCall ==
    /\ loaderPc = "call"
    /\ DirBegin(src)
    /\ UNCHANGED <<src_queue, src_list, nadded, src, status, obj, ret, updates, ui>>

\* the workers are through with every file before the loop takes its first result, and
\* load_dicom_file has returned None for each
WorkersDone ==
    /\ loaderPc = "collect"
    /\ {f \in DOMAIN futures : futures[f].state # "pending"} = {}
    /\ futures' = [f \in DOMAIN futures |->
                       [state |-> "finished", result |-> load_dicom_file(f, [kind |-> "InvalidDicomError"])]]
    /\ UNCHANGED <<src_queue, src_list, nadded, loaderPc, loaderExc, src, loading, series, count, loaded,
                   status, signals, obj, ret, updates, ui>>

\* as_completed yields the results in the order of the file names
CollectNext ==
    LET finished == {f \in DOMAIN futures : futures[f].state = "finished"}
    IN  /\ finished # {}
        /\ Collect(CHOOSE f \in finished : \A g \in finished : f <= g)

NextLoop ==
    \/ DirCall
    \/ WorkersDone
    \/ CollectNext
    \/ LoaderReturn

LoopSpec == InitLoop /\ [][NextLoop]_vars

(***************************************************************************)
(* Properties of load_dicom_dir (LoopSpec)                                 *)
(***************************************************************************)
\* C16: the scan of a root that does not exist fails with a not-found error; it does not
\* come back with an empty set of files and an empty result.
C16_MissingRootFails ==
    (src = NoSuchPath /\ loaderPc # "call") => (loaderExc = "FileNotFoundError" /\ loaderPc # "post")

\* the progress notifications of the log
ProgressCount == Cardinality({i \in 1..Len(signals) : signals[i][1] # ""})

\* C17: the number of progress notifications of an ingestion is about 100 whatever the
\* number of files: 100 for 1000 files, and never one per file for 100 files or more.
C17_ThrottlingBound ==
    loaderPc = "post" =>
        LET total == Cardinality(glob(src))
        IN  /\ total = 1000 => ProgressCount = 100
            /\ total >= 100 => ProgressCount < total

(***************************************************************************)
(* ZipSpec: load_dicom_zip called by a client on an archive of up to       *)
(* MaxLen entries, or on a path that does not exist; the client then takes *)
(* one of the series returned and calls its methods                        *)
(***************************************************************************)
\* an archive: the names of its entries in the order of z.namelist()
Zip(names) == [kind |-> "zip", names |-> names]
Archives ==
    UNION {{Zip(names) : names \in {fs \in [1..n -> SeriesFiles] : \A a, b \in 1..n : a # b => fs[a] # fs[b]}} :
               n \in 0..MaxLen}

InitZip ==
    /\ src_queue = <<>>
    /\ src_list = <<>>
    /\ nadded = 0
    /\ loaderPc = "call"
    /\ loaderExc = "none"
    /\ src \in Archives \cup {NoSuchPath}
    /\ loading = <<>>
    /\ futures = <<>>
    /\ series = <<>>
    /\ count = 0
    /\ loaded = <<>>
    /\ status = <<"", 0, 0>>
    /\ signals = <<>>
    /\ obj = None
    /\ ret = NoCall
    /\ updates = 0
    /\ ui = UiIdle

\* series = load_dicom_zip(src, statusfunc), up to the loop: zipfile.ZipFile(filename) raises
\* when there is no file to open
ZipCall ==
    /\ loaderPc = "call"
    /\ series' = <<>>
    /\ count' = 0
    /\ signals' = <<>>
    /\ IF src.kind = "zip"
       THEN /\ loaderPc' = "entries"
            /\ loading' = Append(loading, src)
            /\ UNCHANGED loaderExc
       ELSE /\ loaderPc' = "dead"
            /\ loaderExc' = "FileNotFoundError"
            /\ UNCHANGED loading
    /\ UNCHANGED <<src_queue, src_list, nadded, src, futures, loaded, status, obj, ret, updates, ui>>

ZipGroupedAlt(d, nfilename, dcm, img) ==
    LET seriesid == Get(dcm, "SeriesInstanceUID", "???")
    IN  IF seriesid \notin Keys(d) THEN Append(d, <<seriesid, DicomSeries(seriesid, nfilename)>>)
        ELSE LET k == Lookup(d, seriesid)
             IN  [d EXCEPT ![k] = <<seriesid, add_file(d[k][2], nfilename, dcm, dcm, img).s>>]

\* lines 174-183: the entry read as dcm goes, with dcm and its image, into the series of its key
ZipGrouped(d, nfilename, dcm, img) ==
    LET seriesid == Get(dcm, "SeriesInstanceUID", "???")
        d1 == IF seriesid \notin Keys(d) THEN Append(d, <<seriesid, DicomSeries(seriesid, nfilename)>>) ELSE d
        k == Lookup(d1, seriesid)
    IN  [d1 EXCEPT ![k] = <<seriesid, add_file(d1[k][2], nfilename, dcm, dcm, img).s>>]

\* one turn of the loop over the names: an entry that is not DICOM is passed over, any other
\* exception of the read or of get_scaled_image leaves load_dicom_zip
ZipEntry ==
    /\ loaderPc = "entries"
    /\ count < Len(src.names)
    /\ LET n == src.names[count + 1]
           numfiles == Len(src.names)
       IN  \E rd \in FullReads(n) :
               LET img == get_scaled_image(IF rd.kind = "dcm" THEN rd.dcm ELSE <<>>)
                   raised == IF rd.kind = "InvalidDicomError" THEN "none"
                             ELSE IF rd.kind = "dcm" THEN img.exc
                             ELSE rd.kind
               IN  IF raised # "none"
                   THEN /\ loaderExc' = raised
                        /\ loaderPc' = "dead"
                        /\ loading' = SubSeq(loading, 1, Len(loading) - 1)
                        /\ UNCHANGED <<series, count, status, signals>>
                   ELSE /\ series' = IF rd.kind = "dcm" THEN ZipGrouped(series, n, rd.dcm, img.val) ELSE series
                        /\ count' = count + 1
                        /\ Progress(numfiles, count + 1)
                        /\ UNCHANGED <<loaderPc, loaderExc, loading>>
    /\ UNCHANGED <<src_queue, src_list, nadded, src, futures, loaded, obj, ret, updates, ui>>

\* lines 190-192
ZipReturn ==
    /\ loaderPc = "entries"
    /\ count = Len(src.names)
    /\ signals' = statusfunc(signals, "", 0, 0)
    /\ status' = Shown(signals')
    /\ loaded' = values(series)
    /\ series' = <<>>
    /\ loading' = SubSeq(loading, 1, Len(loading) - 1)
    /\ loaderPc' = "post"
    /\ UNCHANGED <<src_queue, src_list, nadded, loaderExc, src, futures, count, obj, ret, updates, ui>>

\* the client takes series k of the list returned
Take(k) ==
    /\ loaderPc = "post"
    /\ obj = None
    /\ k \in 1..Len(loaded)
    /\ obj' = loaded[k]
    /\ UNCHANGED <<browserVars, ret>>

NextZip ==
    \/ ZipCall
    \/ ZipEntry
    \/ ZipReturn
    \/ \E k \in 1..MaxLen : Take(k)
    \/ obj # None /\ SortFilenames
    \/ obj # None /\ SortInThread
    \/ obj # None /\ \E index \in Indices : GetAttrObject(index)
    \/ obj # None /\ \E index \in Indices : GetPixelData(index)

ZipSpec == InitZip /\ [][NextZip]_vars

(***************************************************************************)
(* Properties of load_dicom_zip (ZipSpec)                                  *)
(***************************************************************************)
\* the positions of the files of a series
Positions(s) == 0..(Len(s.filenames) - 1)

\* C23: when load_dicom_zip has returned, every position of every series of its result has
\* an entry in the attribute cache and one in the pixel cache, an image or None; and a later
\* get_attr_object or get_pixel_data at a position of such a series returns without reading.
C23_EagerCaching ==
    /\ loaderPc = "post" =>
           \A k \in 1..Len(loaded) :
               /\ loaded[k].filenames # <<>>
               /\ Positions(loaded[k]) \subseteq DOMAIN loaded[k].attrcache
               /\ Positions(loaded[k]) \subseteq DOMAIN loaded[k].imgcache
    /\ (ret.op \in {"get_attr_object", "get_pixel_data"} /\ ret.index \in Positions(obj)) =>
           ret.exc = "none" /\ ~ret.parsed

\* the second entry of a series of the archive has no image: None is what the pixel cache
\* holds for it, and get_pixel_data has returned None without a read
C23_Witness ==
    /\ loaderPc = "post"
    /\ obj # None
    /\ Len(obj.filenames) = 2
    /\ obj.imgcache[1] = None
    /\ obj.imgcache[0] # None
    /\ ret.op = "get_pixel_data"
    /\ ret.index = 1
    /\ ret.val = None
    /\ ~ret.parsed

\* what the caches can hold for file f: a dataset read from it, and None or the image that
\* get_scaled_image makes of such a dataset
AttrsOfFile(f) == {rd.dcm : rd \in {r \in FullReads(f) \cup HeaderReads(f) : r.kind = "dcm"}}
ImagesOfFile(f) ==
    {get_scaled_image(rd.dcm).val : rd \in {r \in FullReads(f) : r.kind = "dcm"}}

CacheMatchesFiles(s) ==
    /\ \A i \in DOMAIN s.attrcache \cap Positions(s) : s.attrcache[i] \in AttrsOfFile(At(s.filenames, i))
    /\ \A i \in DOMAIN s.imgcache \cap Positions(s) : s.imgcache[i] \in ImagesOfFile(At(s.filenames, i))

\* C28: in every state of a series that load_dicom_zip returned, also after sort_filenames,
\* entry i of the attribute cache is a dataset of the file now at filenames[i], and entry i
\* of the pixel cache is the image of that file or None.
C28_CacheIndexCorrespondence ==
    /\ \A k \in 1..Len(loaded) : CacheMatchesFiles(loaded[k])
    /\ obj # None => CacheMatchesFiles(obj)

(***************************************************************************)
(* ImageSpec: get_scaled_image on datasets with or without pixel data and  *)
(* rescale attributes, get_2d_equivalent_image on arrays of rank up to     *)
(* MaxRank                                                                 *)
(***************************************************************************)
MaxRank == 4

\* what a dataset holds of pixel data, RescaleSlope and RescaleIntercept
PixelChoices ==
    {<<>>, [PixelData |-> [t |-> "compressed"]]}
        \cup {[PixelData |-> [t |-> "array", v |-> raw]] : raw \in {<<0>>, <<3>>, <<3, 5>>}}
SlopeChoices == {<<>>} \cup {[RescaleSlope |-> v] : v \in {Num(0), Num(2), Empty, NonNumeric, MultiValue}}
InterceptChoices == {<<>>} \cup {[RescaleIntercept |-> v] : v \in {Num(0), Num(1), Empty, NonNumeric, MultiValue}}
ScaleInputs == {pd @@ sl @@ ic : pd \in PixelChoices, sl \in SlopeChoices, ic \in InterceptChoices}

\* the sizes of an axis, and the shapes of the arrays
Sizes == {1, 3, 4, 5, 8}
Shapes == UNION {[1..n -> Sizes] : n \in 0..MaxRank}

InitImage ==
    /\ src_queue = <<>>
    /\ src_list = <<>>
    /\ nadded = 0
    /\ loaderPc = "get"
    /\ loaderExc = "none"
    /\ src = None
    /\ loading = <<>>
    /\ futures = <<>>
    /\ series = <<>>
    /\ count = 0
    /\ loaded = <<>>
    /\ status = <<"", 0, 0>>
    /\ signals = <<>>
    /\ obj \in {[kind |-> "dcm", dcm |-> dcm] : dcm \in ScaleInputs}
                 \cup {[kind |-> "img", img |-> Array(shape)] : shape \in Shapes}
    /\ ret = NoCall
    /\ updates = 0
    /\ ui = UiIdle

\* get_scaled_image(dcm) on the dataset the client holds
GetScaledImage ==
    /\ obj.kind = "dcm"
    /\ LET r == get_scaled_image(obj.dcm)
       IN  ret' = [op |-> "get_scaled_image", exc |-> r.exc, val |-> r.val]
    /\ UNCHANGED <<browserVars, obj>>

\* get_2d_equivalent_image(img) on the array the client holds
Get2dEquivalentImage ==
    /\ obj.kind = "img"
    /\ ret' = [op |-> "get_2d_equivalent_image", val |-> get_2d_equivalent_image(obj.img)]
    /\ UNCHANGED <<browserVars, obj>>

NextImage ==
    \/ GetScaledImage
    \/ Get2dEquivalentImage

ImageSpec == InitImage /\ [][NextImage]_vars

(***************************************************************************)
(* Properties of the image functions (ImageSpec)                           *)
(***************************************************************************)
\* the number an attribute stands for, or the default when the dataset has no such
\* attribute or its value is not a number
NumberOr(dcm, name, default) ==
    IF name \in DOMAIN dcm /\ dcm[name].t = "num" THEN dcm[name].v ELSE default

IsText(dcm, name) == name \in DOMAIN dcm /\ dcm[name].t = "str"

\* the attribute is absent, empty, a number or a text: it is not multi-valued
SingleValued(dcm, name) == name \in DOMAIN dcm => dcm[name].t # "multi"

HasChannels(shape) == Len(shape) >= 3 /\ shape[Len(shape)] \in {1, 3, 4}

\* the array comes back as it is: rank 2 or less, or rank 3 with a channel axis
PassesThrough(shape) == Len(shape) <= 2 \/ (Len(shape) = 3 /\ HasChannels(shape))

\* `out` is `img` with every axis but the last `keep` fixed at its middle index
MidSliceOf(out, img, keep) ==
    LET n == Len(img.shape)
    IN  /\ Len(out.at) = n - keep
        /\ \A i \in 1..(n - keep) : 2 * out.at[i] <= img.shape[i] /\ img.shape[i] < 2 * out.at[i] + 2
        /\ out.shape = [i \in 1..keep |-> img.shape[n - keep + i]]

\* what get_2d_equivalent_image returns for each shape
ReducedAsStated ==
    IF PassesThrough(obj.img.shape) THEN ret.val = obj.img
    ELSE MidSliceOf(ret.val, obj.img, IF HasChannels(obj.img.shape) THEN 3 ELSE 2)

\* the result is a 2D image, with a channel axis or without
Displayable(out) == Len(out.shape) = 2 \/ (Len(out.shape) = 3 /\ out.shape[3] \in {1, 3, 4})

MaxTimes == 3

\* the TriggerTime of a file, in tenths: 0, 5.0, 5.2, 10.0, 20.0
TimeValues == {0, 50, 52, 100, 200}

\* the load attributes of a file: without TriggerTime, or with one of the values
TimeAttrs == {[SeriesInstanceUID |-> "k1"]} \cup {[SeriesInstanceUID |-> "k1", TriggerTime |-> v] : v \in TimeValues}

\* the series that load_dicom_dir makes of files 1..n with these load attributes
TimedSeries(attrs) ==
    [DicomSeries("k1", Dir(1..Len(attrs))) EXCEPT !.filenames = [i \in 1..Len(attrs) |-> i],
                                                  !.loadattrs = attrs]

InitTimes ==
    /\ src_queue = <<>>
    /\ src_list = <<>>
    /\ nadded = 0
    /\ loaderPc = "get"
    /\ loaderExc = "none"
    /\ src = None
    /\ loading = <<>>
    /\ futures = <<>>
    /\ series = <<>>
    /\ count = 0
    /\ loaded = <<>>
    /\ status = <<"", 0, 0>>
    /\ signals = <<>>
    /\ \E n \in 0..MaxTimes : \E attrs \in [1..n -> TimeAttrs] : obj = TimedSeries(attrs)
    /\ ret = NoCall
    /\ updates = 0
    /\ ui = UiIdle

GetTimestepSpec ==
    /\ Call("get_timestep_spec", 0,
            [s |-> obj, exc |-> "none", val |-> get_timestep_spec(obj, "TriggerTime"), parsed |-> FALSE])

GetExtraAttrValues ==
    /\ Call("get_extra_attr_values", 0,
            [s |-> obj, exc |-> "none", val |-> get_extra_attr_values(obj), parsed |-> FALSE])

NextTimes ==
    \/ GetTimestepSpec
    \/ GetExtraAttrValues

TimesSpec == InitTimes /\ [][NextTimes]_vars

(***************************************************************************)
(* Properties of get_timestep_spec (TimesSpec)                             *)
(***************************************************************************)
\* the whole part of a time in tenths, and the distinct whole times of the files of obj,
\* a file without TriggerTime counting as 0
Whole(v) == CHOOSE k \in -100..100 : 10 * k <= v /\ v < 10 * (k + 1)
WholeTimes ==
    {IF "TriggerTime" \in DOMAIN obj.loadattrs[i] THEN Whole(obj.loadattrs[i].TriggerTime) ELSE 0 :
         i \in 1..Len(obj.loadattrs)}
Least(S) == CHOOSE x \in S : \A y \in S : x <= y
Greatest(S) == CHOOSE x \in S : \A y \in S : x >= y

\* C18: when the files of a series carry one distinct time v, not 0, get_timestep_spec
\* returns (v, 0, 1): start v, interval zero, one timestep.
C18_SingleValue ==
    (ret.op = "get_timestep_spec" /\ Cardinality(WholeTimes) = 1 /\ WholeTimes # {0}) =>
        /\ ret.val[1] = Least(WholeTimes)
        /\ ret.val[2].total = 0
        /\ ret.val[3] = 1

\* C19: get_timestep_spec returns (0, 0, 0) when the distinct times are none or only 0, and
\* for two distinct times or more the smallest, the average of the consecutive differences
\* (the span from the smallest to the greatest over their number less one) and their number,
\* whatever the order of the files and however many carry the same time.
C19_TimestepSpec ==
    ret.op = "get_timestep_spec" =>
        /\ WholeTimes \subseteq {0} => ret.val = <<0, Zero, 0>>
        /\ Cardinality(WholeTimes) >= 2 =>
               /\ ret.val[1] = Least(WholeTimes)
               /\ ret.val[2].n > 0
               /\ ret.val[2].total * (Cardinality(WholeTimes) - 1)
                      = (Greatest(WholeTimes) - Least(WholeTimes)) * ret.val[2].n
               /\ ret.val[3] = Cardinality(WholeTimes)

\* times 20, 0, 10 in this order of the files have given (0, 10, 3)
C19_Witness ==
    /\ ret.op = "get_timestep_spec"
    /\ Len(obj.loadattrs) = 3
    /\ \A i \in 1..3 : "TriggerTime" \in DOMAIN obj.loadattrs[i]
    /\ <<obj.loadattrs[1].TriggerTime, obj.loadattrs[2].TriggerTime, obj.loadattrs[3].TriggerTime>>
           = <<200, 0, 100>>
    /\ ret.val[1] = 0 /\ ret.val[2].total = 10 * ret.val[2].n /\ ret.val[3] = 3

(***************************************************************************)
(* On-demand reads (AccessSpec)                                            *)
(***************************************************************************)
\* the exceptions of a read of a file that is unreadable or has no recognized header
ReadErrors == {"InvalidDicomError", "OSError"}

\* C31: get_attr_object at a position of the series that is not in the attribute cache reads
\* the file; either the read gives a header, which is returned and cached at that position,
\* or its exception reaches the caller and the series, its attribute cache included, is as
\* before, so that the next call at that position reads again.
C31_OnDemandFailureSurfaced ==
    [][(/\ ret'.op = "get_attr_object"
        /\ ret'.index \in Positions(obj)
        /\ ~Cached(obj.attrcache, ret'.index)
        /\ ret' # ret) =>
           /\ ret'.parsed
           /\ \/ /\ ret'.exc = "none"
                 /\ ret'.val \in AttrsOfFile(At(obj.filenames, ret'.index))
                 /\ obj' = [obj EXCEPT !.attrcache = Put(@, ret'.index, ret'.val)]
              \/ /\ ret'.exc \in ReadErrors
                 /\ ret'.val = None
                 /\ obj' = obj]_vars

\* a read of the second file for get_attr_object has raised and left no cache entry; the
\* first file is cached
C31_Witness ==
    /\ ret.op = "get_attr_object"
    /\ ret.index = 1
    /\ ret.exc \in ReadErrors
    /\ ret.parsed
    /\ Len(obj.filenames) = 2
    /\ DOMAIN obj.attrcache = {0}

(***************************************************************************)
(* AppendSpec: a series built by add_file without attrs and img and by     *)
(* add_series, with accessor calls and the sort between the additions      *)
(***************************************************************************)
\* obj.add_series(other): the argument after the call is kept as the value of the call
AddSeriesFrom(fs) ==
    /\ Len(obj.filenames) + Len(fs) <= MaxLen
    /\ \A a, b \in 1..Len(fs) : a # b => fs[a] # fs[b]
    /\ \A a \in 1..Len(fs) : fs[a] \notin FileSet(obj)
    /\ LET r == add_series(obj, OtherSeries(fs), 1)
       IN  Call("add_series", 0, [s |-> r.s, exc |-> r.exc, val |-> r.other, parsed |-> FALSE])

NextAppend ==
    \/ \E f \in SeriesFiles : AddFile(f)
    \/ \E n \in 1..MaxLen : \E fs \in [1..n -> SeriesFiles] : AddSeriesFrom(fs)
    \/ SortFilenames
    \/ \E index \in Indices : GetAttrObject(index)
    \/ \E index \in Indices : GetPixelData(index)

AppendSpec == InitSeries /\ [][NextAppend]_vars

\* the pairs of s from position n + 1 on
Added(s, n) == [filenames |-> SubSeq(s.filenames, n + 1, Len(s.filenames)),
                loadattrs |-> SubSeq(s.loadattrs, n + 1, Len(s.loadattrs))]

\* s2 is s1 with pairs appended and nothing else changed
AppendedOnly(s1, s2) ==
    /\ Len(s2.filenames) >= Len(s1.filenames)
    /\ Len(s2.loadattrs) >= Len(s1.loadattrs)
    /\ SubSeq(s2.filenames, 1, Len(s1.filenames)) = s1.filenames
    /\ SubSeq(s2.loadattrs, 1, Len(s1.loadattrs)) = s1.loadattrs
    /\ s2 = [s1 EXCEPT !.filenames = s2.filenames, !.loadattrs = s2.loadattrs]

\* C32: a call of add_file without attrs and img that returns has put one pair, the file and
\* its load attributes, at the end of the two sequences; a call of add_series that returns
\* has put the pairs of its argument there in the argument's order; in both, the earlier
\* pairs, the two caches and every other field of the receiver are as before, and the
\* argument of add_series is as it was.
C32_PureAppend ==
    [][/\ (ret'.op = "add_file" /\ ret'.exc = "none") =>
              /\ AppendedOnly(obj, obj')
              /\ Len(obj'.filenames) = Len(obj.filenames) + 1
              /\ Len(obj'.loadattrs) = Len(obj.loadattrs) + 1
              /\ obj'.loadattrs[Len(obj'.loadattrs)] = LoadAttrsOf(obj, obj'.filenames[Len(obj'.filenames)])
       /\ (ret'.op = "add_series" /\ ret'.exc = "none") =>
              /\ AppendedOnly(obj, obj')
              /\ Added(obj', Len(obj.filenames)) = [filenames |-> ret'.val.filenames, loadattrs |-> ret'.val.loadattrs]
              /\ ret'.val = OtherSeries(ret'.val.filenames)]_vars

\* add_series has appended a file, one that sorts before the file the series held, to a
\* series with a cache entry for the file it held
C32_Witness ==
    /\ ret.op = "add_series"
    /\ ret.exc = "none"
    /\ Len(ret.val.filenames) = 1
    /\ Len(obj.filenames) = 2
    /\ obj.filenames[1] > obj.filenames[2]
    /\ DOMAIN obj.attrcache = {0}

(***************************************************************************)
(* IngestSpec: the loader thread with one source, a directory or an        *)
(* archive, from the choice of the loader to the end of its turn           *)
(***************************************************************************)
InitIngest ==
    /\ src_queue = <<>>
    /\ src_list = <<>>
    /\ nadded = 0
    /\ loaderPc = "call"
    /\ loaderExc = "none"
    /\ src \in Roots \cup Archives
    /\ loading = <<>>
    /\ futures = <<>>
    /\ series = <<>>
    /\ count = 0
    /\ loaded = <<>>
    /\ status = <<"", 0, 0>>
    /\ signals = <<>>
    /\ obj = None
    /\ ret = NoCall
    /\ updates = 0
    /\ ui = UiIdle

\* loader = load_dicom_dir if os.path.isdir(src) else load_dicom_zip
NextIngest ==
    \/ isdir(src) /\ DirCall
    \/ ~isdir(src) /\ ZipCall
    \/ \E f \in Files : WorkerFinish(f)
    \/ \E f \in Files : Collect(f)
    \/ LoaderAbort
    \/ LoaderReturn
    \/ ZipEntry
    \/ ZipReturn
    \/ LoaderPost

IngestSpec == InitIngest /\ [][NextIngest]_vars

\* C33: every series of the dict that load_dicom_dir or load_dicom_zip builds, and every
\* series of the list it returns, holds at least one file, whatever the files are and in
\* whatever order the tasks complete; so the acceptance test of the loader thread fails
\* only on the empty list.
C33_NonEmptySeries ==
    /\ \A i \in 1..Len(series) : Len(series[i][2].filenames) > 0
    /\ \A i \in 1..Len(loaded) : Len(loaded[i].filenames) > 0
    /\ loaderPc = "post" => (Accepts(loaded) \/ loaded = <<>>)

\* an archive of two entries, one of them not DICOM, has been ingested and has returned one
\* series of one file
C33_Witness ==
    /\ loaderPc = "post"
    /\ src.kind = "zip"
    /\ Len(src.names) = 2
    /\ Len(loaded) = 1
    /\ Len(loaded[1].filenames) = 1

(***************************************************************************)
(* Progress notifications of load_dicom_dir (LoopSpec, IngestSpec)         *)
(***************************************************************************)
\* the tasks whose result the loop has taken
Yielded(fs) == {f \in DOMAIN fs : fs[f].state = "yielded"}

\* max(1, total // 100)
Cadence(total) == IF total \div 100 >= 1 THEN total \div 100 ELSE 1

Basename(f) == IF f = NumFiles THEN "DICOMDIR" ELSE "IM"

\* str.lower() on the names above
Lower(name) == IF name = "DICOMDIR" THEN "dicomdir" ELSE IF name = "IM" THEN "im" ELSE name

\* f is named as the reserved index file
IsIndexFile(f) == Lower(Basename(f)) = "dicomdir"

\* C35: no file with the reserved name "dicomdir", in whatever case, is submitted to a
\* load_dicom_file task or held by a series under construction or returned.
C35_IndexFileExcluded ==
    /\ \A f \in DOMAIN futures : ~IsIndexFile(f)
    /\ \A i \in 1..Len(series) : \A f \in FileSet(series[i][2]) : isdir(src) => ~IsIndexFile(f)
    /\ \A i \in 1..Len(loaded) : \A f \in FileSet(loaded[i]) : isdir(src) => ~IsIndexFile(f)

\* the number of candidate files of the batch of src
Candidates(root) == IF isdir(root) THEN Cardinality(glob(root)) ELSE IF root.kind = "zip" THEN Len(root.names) ELSE 0

\* the progress notifications of the log, in the order of their emission
ProgressAt(log) == {i \in 1..Len(log) : log[i][1] # ""}

\* C36: in every progress notification of an ingestion the completed count is between 0 and
\* the total, the total is the number of candidate files of the batch, and the completed
\* counts of successive notifications do not decrease, whatever the order in which the
\* tasks complete.
C36_ProgressWellFormed ==
    /\ \A i \in ProgressAt(signals) :
           /\ 0 <= signals[i][2]
           /\ signals[i][2] <= signals[i][3]
           /\ signals[i][3] = Candidates(src)
    /\ \A i, j \in ProgressAt(signals) : i < j => signals[i][2] <= signals[j][2]

\* the three files of a directory have been collected, the one collected last not being
\* the last of the directory, and three progress notifications have been emitted
C36_Witness ==
    /\ isdir(src)
    /\ Cardinality(glob(src)) = 3
    /\ Cardinality(ProgressAt(signals)) = 3
    /\ loaderPc = "post"
    /\ \E i \in 1..Len(loaded) : Len(loaded[i].filenames) >= 2 /\ loaded[i].filenames[1] > loaded[i].filenames[2]

(***************************************************************************)
(* WindowSpec: the slots of the browser window on the UI thread, with the  *)
(* source list as the append of line 150 of the loader thread is written   *)
(* to leave it. The window is held in `ui`.                                *)
(***************************************************************************)
\* the methods of class DicomSeries
DicomSeriesMethods ==
    {"add_file", "sort_filenames", "get_attr_object", "get_extra_attr_values", "get_attr_values",
     "get_pixel_data", "add_series", "get_timestep_spec"}

\* DicomBrowser.__init__: the fields the slots read and write
NewWindow ==
    [pc |-> "idle", exc |-> "none", op |-> "none", series_map |-> <<>>, series_table |-> <<>>,
     selected_row |-> -1, image_index |-> 0, filter_regex |-> ""]

\* a source as the loader thread appends it: (src, series), the series sorted
SourceOf(n) == <<Dir(1..n), <<IngestedSeries(n)>>>>
SourceChoices == {SourceOf(n) : n \in 1..MaxLen}
SourceLists == UNION {[1..n -> SourceChoices] : n \in 0..MaxSources}

\* the series of all the sources, in the order of the two loops of lines 175-176
RECURSIVE AllSeries(_)
AllSeries(sl) == IF sl = <<>> THEN <<>> ELSE sl[1][2] \o AllSeries(Tail(sl))

\* DicomBrowser._update_series_table: the map is cleared, then s.get_tag_values is read
\* from the first series met, which raises as DicomSeries has no such method; with no
\* series the two models are refilled from the empty map
update_series_table(w, sl) ==
    LET w1 == [w EXCEPT !.series_map = <<>>, !.op = "_update_series_table"]
    IN  IF AllSeries(sl) # <<>> /\ "get_tag_values" \notin DicomSeriesMethods
        THEN [w1 EXCEPT !.exc = "AttributeError"]
        ELSE [w1 EXCEPT !.exc = "none", !.series_table = <<>>]

\* DicomBrowser.get_selected_series
get_selected_series(w) ==
    IF 0 <= w.selected_row /\ w.selected_row < Len(w.series_map)
    THEN w.series_map[Lookup(w.series_map, w.series_table[w.selected_row + 1])][2]
    ELSE None

\* DicomBrowser._fill_tag_view: series.get_tag_object is read from None when no series is
\* selected, and from a DicomSeries, which has no such method, otherwise
fill_tag_view(w) ==
    LET selected == get_selected_series(w)
    IN  IF selected = None \/ "get_tag_object" \notin DicomSeriesMethods
        THEN [w EXCEPT !.exc = "AttributeError"]
        ELSE [w EXCEPT !.exc = "none"]

\* np.clip(i, lo, hi)
clip(i, lo, hi) == IF i < lo THEN lo ELSE IF i > hi THEN hi ELSE i

\* DicomBrowser.set_series_image(i): nothing is done when no series is selected
set_series_image(w, i) ==
    LET selected == get_selected_series(w)
        w1 == [w EXCEPT !.op = "set_series_image", !.exc = "none"]
    IN  IF selected = None THEN w1
        ELSE fill_tag_view([w1 EXCEPT !.image_index = clip(i, 0, Len(selected.filenames) - 1)])

\* DicomBrowser._set_filter_string(regex)
set_filter_string(w, regex) ==
    fill_tag_view([w EXCEPT !.op = "_set_filter_string", !.filter_regex = regex])

InitWindow ==
    /\ src_queue = <<>>
    /\ src_list \in SourceLists
    /\ nadded = 0
    /\ loaderPc = "get"
    /\ loaderExc = "none"
    /\ src = None
    /\ loading = <<>>
    /\ futures = <<>>
    /\ series = <<>>
    /\ count = 0
    /\ loaded = <<>>
    /\ status = <<"", 0, 0>>
    /\ signals = <<>>
    /\ obj = None
    /\ ret = NoCall
    /\ updates = Len(src_list)
    /\ ui = NewWindow

windowFrame == <<src_queue, nadded, loaderPc, loaderExc, src, loading, futures, series, count, loaded,
                 status, signals, obj, ret>>

\* the event loop delivers one emission of updateSignal
UpdateSeriesTable ==
    /\ updates > 0
    /\ updates' = updates - 1
    /\ ui' = update_series_table(ui, src_list)
    /\ UNCHANGED <<src_list, windowFrame>>

\* DicomBrowser.remove_source(index)
RemoveSource(index) ==
    /\ IF InRange(src_list, index)
       THEN /\ src_list' = [k \in 1..(Len(src_list) - 1) |->
                                IF k < (IF index >= 0 THEN index + 1 ELSE Len(src_list) + index + 1)
                                THEN src_list[k] ELSE src_list[k + 1]]
            /\ updates' = updates + 1
            /\ ui' = [ui EXCEPT !.op = "remove_source", !.exc = "none"]
       ELSE /\ ui' = [ui EXCEPT !.op = "remove_source", !.exc = "IndexError"]
            /\ UNCHANGED <<src_list, updates>>
    /\ UNCHANGED windowFrame

\* the values of the image slider, and the texts of the filter line
SliderValues == 0..MaxLen
FilterTexts == {"", "Patient"}

\* imageSlider.valueChanged
SliderChanged(i) ==
    /\ ui' = set_series_image(ui, i)
    /\ UNCHANGED <<src_list, updates, windowFrame>>

\* filterLine.textChanged
FilterChanged(regex) ==
    /\ regex # ui.filter_regex
    /\ ui' = set_filter_string(ui, regex)
    /\ UNCHANGED <<src_list, updates, windowFrame>>

NextWindow ==
    \/ UpdateSeriesTable
    \/ \E index \in SourceIndices : RemoveSource(index)
    \/ \E i \in SliderValues : SliderChanged(i)
    \/ \E regex \in FilterTexts : FilterChanged(regex)

WindowSpec == InitWindow /\ [][NextWindow]_vars

C38_ImageIndexInRange ==
    /\ get_selected_series(ui) # None =>
           (0 <= ui.image_index /\ ui.image_index < Len(get_selected_series(ui).filenames))
    /\ (ui.op = "_set_filter_string" /\ get_selected_series(ui) = None) => ui.exc = "none"

====
